---- MODULE Spec2Model ----
(***************************************************************************)
(* Model of the Qwipo recommender: data_prep.py writes the artifacts,      *)
(* mode1_train.py writes the model file, api_service.py loads both at      *)
(* startup (load_artifacts) and serves POST /recommend/full                *)
(* (get_hybrid_recommendations).                                           *)
(*                                                                         *)
(* Representation.  Scores and profit margins are fixed-point hundredths   *)
(* (90 is 0.90), weights are tenths (5 is 0.5).  A final business score is *)
(* kept as the exact numerator over the common denominator                 *)
(* 10 * 100 * (MARGIN_MAX - MARGIN_MIN), so comparisons are the exact      *)
(* rational ones; floating-point rounding is not modelled.  Product and    *)
(* retailer ids are numbers: product i stands for 'P000i', retailer i for  *)
(* 'R00i'.  The relevance model is opaque: the vector model.predict        *)
(* returns is an input of each request.  Category, StoreType, LocationTier *)
(* and the content vectors only feed model.predict; the catalog rows keep  *)
(* ProfitMargin and CurrentStock, the other stores keep their keys.        *)
(***************************************************************************)
EXTENDS Integers, Sequences, FiniteSets, TLC

\* ---------------------------------------------------------------- bounds
\* The id ranges and list sizes of the source (500 retailers, 1000 products,
\* 500 candidates, 10 results, 20000 purchases, 10 negatives per positive)
\* are scaled down together, keeping FINAL_LIST_SIZE < TOP_K_CANDIDATES <
\* MaxProducts and the sampled pairs fewer than all pairs, as in the source.
NumRetailers == 2        \* NUM_RETAILERS of data_prep.py
MaxProducts == 3         \* NUM_PRODUCTS of data_prep.py; largest catalog
TOP_K_CANDIDATES == 2    \* TOP_K_CANDIDATES of api_service.py
FINAL_LIST_SIZE == 1     \* FINAL_LIST_SIZE of api_service.py
NumPurchases == 2        \* purchases drawn by data_prep.py
NegPerPos == 1           \* negatives sampled per positive purchase
MaxRequests == 3         \* requests of a run that repeats requests
RepeatProducts == 1      \* largest catalog of a run that repeats requests

\* ------------------------------------------------------ program constants
W_MODEL == 5
W_PROFIT == 3
W_STOCK == 2
MARGIN_MIN == 10
MARGIN_MAX == 40
STOCK_CAP == 500
LOW_STOCK == 50

Scores == {70, 80, 90}

ProductKinds ==
  { [ProfitMargin |-> 10, CurrentStock |-> 10],
    [ProfitMargin |-> 40, CurrentStock |-> 200],
    [ProfitMargin |-> 25, CurrentStock |-> 60],
    [ProfitMargin |-> 45, CurrentStock |-> 49],
    [ProfitMargin |-> 5,  CurrentStock |-> 50] }

VARIABLES disk, svc, model, retailer_map, product_map, product_vectors_data,
          product_catalog, retailer_profiles, tie_order, last, first, served, quota

globals == <<model, retailer_map, product_map, product_vectors_data,
             product_catalog, retailer_profiles>>
vars == <<disk, svc, model, retailer_map, product_map, product_vectors_data,
          product_catalog, retailer_profiles, tie_order, last, first, served, quota>>

Min(a, b) == IF a < b THEN a ELSE b

Range(s) == { s[i] : i \in DOMAIN s }

Max(a, b) == IF a > b THEN a ELSE b

\* ------------------------------------------------------------ the stores
FileNames ==
  { "hybrid_recommender.h5", "retailer_map.pkl", "product_map.pkl",
    "product_vectors.pkl", "product_catalog.csv", "retailer_profiles.csv" }

RetailerIds == 1 .. NumRetailers

\* retailer ids a client may send: the known ones and one unknown ('R999')
RequestIds == 1 .. (NumRetailers + 1)

\* np.argsort does not fix the order of equal elements (default kind is
\* quicksort); the build fixes one, the same for every call.
TieOrders == {"index_asc", "index_desc"}

\* a profile row of retailer_profiles.csv (codes only feed model.predict)
Profile(rid) == [StoreType |-> rid % 3, LocationTier |-> rid % 3]

EmptyDisk ==
  [ files |-> {}, retailer_map |-> {}, product_map |-> <<>>,
    product_vectors |-> {}, product_catalog |-> <<>>,
    retailer_profiles |-> <<>> ]

\* ------------------------------------------------- candidate generation
\* element i sorts before element j in np.argsort(predictions)
SortsBefore(predictions, i, j) ==
  \/ predictions[i] < predictions[j]
  \/ /\ predictions[i] = predictions[j]
     /\ IF tie_order = "index_asc" THEN i < j ELSE i > j

\* np.argsort(predictions): the indices in ascending order of score
ArgSort(predictions) ==
  LET n == Len(predictions)
      pos(i) == 1 + Cardinality({ j \in 1 .. n : SortsBefore(predictions, j, i) })
  IN  [ k \in 1 .. n |-> CHOOSE i \in 1 .. n : pos(i) = k ]

\* s[::-1]
Reversed(s) == [ k \in 1 .. Len(s) |-> s[Len(s) + 1 - k] ]

\* s[:k]
Take(s, k) == SubSeq(s, 1, Min(k, Len(s)))

\* np.argsort(predictions)[::-1][:TOP_K_CANDIDATES]
TopIndicesAscending(predictions) == Take(ArgSort(predictions), TOP_K_CANDIDATES)
TopIndices(predictions) == Take(Reversed(ArgSort(predictions)), TOP_K_CANDIDATES)

\* ---------------------------------------------------- business re-ranking
\* np.clip(current_stock / 500, 0, 1), in hundredths; computed by the code
\* and not used in the score
NormalizedStock(current_stock) ==
  Min(100, Max(0, (current_stock * 100) \div STOCK_CAP))

\* 1.0 if current_stock < 50 else 0.0
StockPenaltyInclusive(current_stock) == IF current_stock <= LOW_STOCK THEN 1 ELSE 0
StockPenalty(current_stock) == IF current_stock < LOW_STOCK THEN 1 ELSE 0

\* (W_MODEL * score) + (W_PROFIT * normalized_margin) - (W_STOCK * stock_penalty)
\* with normalized_margin = (profit_margin - 0.1) / (0.4 - 0.1), as the
\* numerator over 10 * 100 * (MARGIN_MAX - MARGIN_MIN)
FinalScore(score, p_data) ==
    W_MODEL * score * (MARGIN_MAX - MARGIN_MIN)
  + W_PROFIT * (p_data.ProfitMargin - MARGIN_MIN) * 100
  - W_STOCK * StockPenalty(p_data.CurrentStock) * 100 * (MARGIN_MAX - MARGIN_MIN)

\* the loop over zip(candidate_predictions, candidate_pids)
FinalScores(candidate_predictions, candidate_pids) ==
  [ k \in 1 .. Len(candidate_pids) |->
      [ pid |-> candidate_pids[k],
        final_score |-> FinalScore(candidate_predictions[k],
                                   product_catalog[candidate_pids[k]]),
        score |-> candidate_predictions[k] ] ]

\* final_scores.sort(key=lambda x: x[1], reverse=True): list.sort is stable,
\* and reverse=True keeps equal elements in their original order
SortUnstable(fs) ==
  LET n == Len(fs)
      before(i, j) == \/ fs[i].final_score > fs[j].final_score
                      \/ fs[i].final_score = fs[j].final_score /\ i > j
      pos(i) == 1 + Cardinality({ j \in 1 .. n : before(j, i) })
  IN  [ k \in 1 .. n |-> fs[CHOOSE i \in 1 .. n : pos(i) = k] ]
SortNotApplied(fs) == fs
SortByFinalScore(fs) ==
  LET n == Len(fs)
      before(i, j) == \/ fs[i].final_score > fs[j].final_score
                      \/ fs[i].final_score = fs[j].final_score /\ i < j
      pos(i) == 1 + Cardinality({ j \in 1 .. n : before(j, i) })
  IN  [ k \in 1 .. n |-> fs[CHOOSE i \in 1 .. n : pos(i) = k] ]

\* enumerate(final_scores[:FINAL_LIST_SIZE]) with final_rank = rank + 1
ResponseList(final_scores) ==
  [ k \in 1 .. Min(FINAL_LIST_SIZE, Len(final_scores)) |->
      [ product_id |-> final_scores[k].pid,
        predicted_score |-> final_scores[k].score,
        final_rank |-> k ] ]

\* ------------------------------------------------------------ the request
NoRequest ==
  [ retailer_id |-> 0, status |-> "none", predictions |-> <<>>,
    scorer_calls |-> 0, candidate_pids |-> <<>>, final_scores |-> <<>>,
    response_list |-> <<>> ]

\* the request ends with an exception: HTTPException(404), or an uncaught
\* KeyError that FastAPI answers with 500
Failure(retailer_id, code) ==
  [ NoRequest EXCEPT !.retailer_id = retailer_id, !.status = code ]

\* list(product_map.keys())
all_product_ids == product_map

\* a KeyError while the model inputs are built: product_vectors_data[pid] or
\* product_catalog[pid] for a pid of all_product_ids
FeatureLookupFails ==
  \E pid \in Range(all_product_ids) :
     pid \notin product_vectors_data \/ pid \notin DOMAIN product_catalog

\* candidate generation, re-ranking and output, once the inputs are built
Ranked(retailer_id, ids, predictions) ==
  LET top_indices == TopIndices(predictions)
      candidate_predictions ==
        [ k \in 1 .. Len(top_indices) |-> predictions[top_indices[k]] ]
      candidate_pids ==
        [ k \in 1 .. Len(top_indices) |-> ids[top_indices[k]] ]
      final_scores ==
        SortByFinalScore(FinalScores(candidate_predictions, candidate_pids))
  IN  [ retailer_id |-> retailer_id, status |-> "200",
        predictions |-> predictions, scorer_calls |-> 1,
        candidate_pids |-> candidate_pids, final_scores |-> final_scores,
        response_list |-> ResponseList(final_scores) ]

\* variants of the handler with a plausible slip
HandlerLateCheck(retailer_id, predictions) ==
  IF FeatureLookupFails
  THEN Failure(retailer_id, IF retailer_id \notin retailer_map THEN "404" ELSE "500")
  ELSE IF retailer_id \notin retailer_map
  THEN [ Ranked(retailer_id, all_product_ids, predictions)
           EXCEPT !.status = "404", !.response_list = <<>> ]
  ELSE IF retailer_id \notin DOMAIN retailer_profiles
  THEN Failure(retailer_id, "500")
  ELSE Ranked(retailer_id, all_product_ids, predictions)
HandlerSkipMissing(retailer_id, predictions) ==
  IF retailer_id \notin retailer_map THEN Failure(retailer_id, "404")
  ELSE IF retailer_id \notin DOMAIN retailer_profiles THEN Failure(retailer_id, "500")
  ELSE LET keep == { i \in 1 .. Len(all_product_ids) :
                       /\ all_product_ids[i] \in product_vectors_data
                       /\ all_product_ids[i] \in DOMAIN product_catalog }
           nth(k) == CHOOSE i \in keep : Cardinality({ j \in keep : j < i }) = k - 1
           ids == [ k \in 1 .. Cardinality(keep) |-> all_product_ids[nth(k)] ]
           ps == [ k \in 1 .. Cardinality(keep) |-> predictions[nth(k)] ]
       IN  [ Ranked(retailer_id, ids, ps) EXCEPT !.predictions = predictions ]

\* POST /recommend/full.  predictions is what model.predict returns for the
\* batch of all products, one score per product of all_product_ids.
get_hybrid_recommendations(retailer_id, predictions) ==
  IF retailer_id \notin retailer_map THEN Failure(retailer_id, "404")
  ELSE IF retailer_id \notin DOMAIN retailer_profiles THEN Failure(retailer_id, "500")
  ELSE IF FeatureLookupFails THEN Failure(retailer_id, "500")
  ELSE Ranked(retailer_id, all_product_ids, predictions)

\* ---------------------------------------------------------------- startup
\* load_artifacts: the model first, then the three pickles, then the two csv
\* files; the first missing file raises and leaves the later globals unset.
\* product_catalog and retailer_profiles are assigned after both csv reads.
LoadAttempt ==
  LET has(f) == f \in disk.files
      m  == has("hybrid_recommender.h5")
      s1 == m /\ has("retailer_map.pkl")
      s2 == s1 /\ has("product_map.pkl")
      s3 == s2 /\ has("product_vectors.pkl")
      s4 == s3 /\ has("product_catalog.csv") /\ has("retailer_profiles.csv")
  IN  [ ok |-> s4,
        model |-> IF m THEN TRUE ELSE model,
        retailer_map |-> IF s1 THEN disk.retailer_map ELSE retailer_map,
        product_map |-> IF s2 THEN disk.product_map ELSE product_map,
        product_vectors_data |->
          IF s3 THEN disk.product_vectors ELSE product_vectors_data,
        product_catalog |-> IF s4 THEN disk.product_catalog ELSE product_catalog,
        retailer_profiles |->
          IF s4 THEN disk.retailer_profiles ELSE retailer_profiles ]

\* a load that reports success whatever was missing
load_artifacts_swallowing == [ LoadAttempt EXCEPT !.ok = TRUE ]
load_artifacts == LoadAttempt

\* uvicorn runs the startup event before it accepts requests and exits when
\* the event raises
Startup ==
  /\ svc = "down"
  /\ LET r == load_artifacts
     IN  /\ model' = r.model
         /\ retailer_map' = r.retailer_map
         /\ product_map' = r.product_map
         /\ product_vectors_data' = r.product_vectors_data
         /\ product_catalog' = r.product_catalog
         /\ retailer_profiles' = r.retailer_profiles
         /\ svc' = IF r.ok THEN "ready" ELSE "failed"
  /\ UNCHANGED <<disk, tie_order, last, first, served, quota>>

\* a handler that consumes stock of what it recommends
RecommendConsumingStock(retailer_id, predictions) ==
  /\ svc = "ready"
  /\ served < quota
  /\ last' = get_hybrid_recommendations(retailer_id, predictions)
  /\ first' = IF served = 0 THEN last' ELSE first
  /\ served' = served + 1
  /\ product_catalog' =
       [ pid \in DOMAIN product_catalog |->
           IF \E k \in DOMAIN last'.response_list :
                last'.response_list[k].product_id = pid
           THEN [ product_catalog[pid] EXCEPT !.CurrentStock = Max(0, @ - 20) ]
           ELSE product_catalog[pid] ]
  /\ UNCHANGED <<disk, svc, model, retailer_map, product_map,
                 product_vectors_data, retailer_profiles, tie_order, quota>>

\* One request, handled to completion: the handler is an async function
\* without an await, so the event loop runs nothing else meanwhile.  Requests
\* arrive only once the startup event has returned (svc = "ready").  first
\* and served record the run's first outcome and the number of requests.
Recommend(retailer_id, predictions) ==
  /\ svc = "ready"
  /\ served < quota
  /\ last' = get_hybrid_recommendations(retailer_id, predictions)
  /\ first' = IF served = 0 THEN last' ELSE first
  /\ served' = served + 1
  /\ UNCHANGED <<disk, svc, model, retailer_map, product_map,
                 product_vectors_data, product_catalog, retailer_profiles,
                 tie_order, quota>>

Request ==
  \E retailer_id \in RequestIds :
    \E predictions \in [ 1 .. Len(product_map) -> Scores ] :
       Recommend(retailer_id, predictions)

\* ------------------------------------------------------ the service alone
\* a complete artifact directory: n products with the given catalog rows
Artifacts(n, rows) ==
  [ files |-> FileNames,
    retailer_map |-> RetailerIds,
    product_map |-> [ i \in 1 .. n |-> i ],
    product_vectors |-> 1 .. n,
    product_catalog |-> rows,
    retailer_profiles |-> [ rid \in RetailerIds |-> Profile(rid) ] ]

WellFormedDisks ==
  UNION { { Artifacts(n, rows) : rows \in [ 1 .. n -> ProductKinds ] } :
          n \in 1 .. MaxProducts }

\* the catalog rows of a run that repeats requests
RepeatKinds ==
  { [ProfitMargin |-> 10, CurrentStock |-> 10],
    [ProfitMargin |-> 40, CurrentStock |-> 200] }

\* one artifact directory with a single file missing
BrokenDisks ==
  LET d == Artifacts(1, [ i \in 1 .. 1 |-> [ProfitMargin |-> 40, CurrentStock |-> 200] ])
  IN  { [ d EXCEPT !.files = FileNames \ {f} ] : f \in FileNames }

InitService ==
  /\ svc = "down"
  /\ model = FALSE
  /\ retailer_map = {}
  /\ product_map = <<>>
  /\ product_vectors_data = {}
  /\ product_catalog = <<>>
  /\ retailer_profiles = <<>>
  /\ last = NoRequest
  /\ first = NoRequest
  /\ served = 0
  /\ tie_order \in TieOrders

\* The service started on an artifact directory: one request against any
\* catalog of up to MaxProducts products, or up to MaxRequests requests
\* against any catalog of up to RepeatProducts products.
Init ==
  /\ InitService
  /\ \/ disk \in WellFormedDisks \cup BrokenDisks /\ quota = 1
     \/ /\ disk \in { d \in WellFormedDisks : Len(d.product_map) <= RepeatProducts }
        /\ \A pid \in DOMAIN disk.product_catalog :
              disk.product_catalog[pid] \in RepeatKinds
        /\ quota = MaxRequests

Next == Startup \/ Request

Spec == Init /\ [][Next]_vars

\* --------------------------------------------- data_prep.py, mode1_train.py
\* ProfitMargin is uniform(0.1, 0.4), CurrentStock is randint(50, 500)
PrepKinds ==
  { [ProfitMargin |-> 10, CurrentStock |-> 50],
    [ProfitMargin |-> 40, CurrentStock |-> 499] }

PrepProductIds == 1 .. MaxProducts

all_pairs == RetailerIds \X PrepProductIds

\* len(negative_pairs[:num_negatives_to_sample])
NumNegatives(num_positives) ==
  Min(num_positives * NegPerPos, Cardinality(all_pairs) - num_positives)

\* The (RetailerID, ProductID) pairs of data_df: the distinct purchases and
\* the negatives sampled from the other pairs.
DataFrames ==
  UNION
    { { positive \cup negative :
          negative \in
            { neg \in SUBSET (all_pairs \ positive) :
                Cardinality(neg) = NumNegatives(Cardinality(positive)) } } :
      positive \in
        { pos \in SUBSET all_pairs : Cardinality(pos) \in 1 .. NumPurchases } }

\* retailer_profiles.csv: the drop_duplicates of data_df's retailer columns.
\* final_retailer_profiles is taken from data_df, not from retailer_df.
FinalRetailerProfiles(data_df) ==
  [ rid \in { pair[1] : pair \in data_df } |-> Profile(rid) ]

\* product_catalog.csv: the drop_duplicates of data_df's product columns
FinalProductCatalog(data_df, product_df) ==
  [ pid \in { pair[2] : pair \in data_df } |-> product_df[pid] ]

\* data_prep.py, run to its end on an empty artifact directory
DataPrep ==
  /\ disk = EmptyDisk
  /\ \E product_df \in [ PrepProductIds -> PrepKinds ], data_df \in DataFrames :
       disk' = [ files |-> FileNames \ {"hybrid_recommender.h5"},
                 retailer_map |-> RetailerIds,
                 product_map |-> [ i \in PrepProductIds |-> i ],
                 product_vectors |-> PrepProductIds,
                 product_catalog |-> FinalProductCatalog(data_df, product_df),
                 retailer_profiles |-> FinalRetailerProfiles(data_df) ]
  /\ UNCHANGED <<svc, model, retailer_map, product_map, product_vectors_data,
                 product_catalog, retailer_profiles, tie_order, last, first,
                 served, quota>>

\* mode1_train.py: reads the csv files and the pickles, saves the model (a
\* second run would write the same file again)
ModelTrain ==
  /\ FileNames \ {"hybrid_recommender.h5"} \subseteq disk.files
  /\ "hybrid_recommender.h5" \notin disk.files
  /\ disk' = [ disk EXCEPT !.files = FileNames ]
  /\ UNCHANGED <<svc, model, retailer_map, product_map, product_vectors_data,
                 product_catalog, retailer_profiles, tie_order, last, first,
                 served, quota>>

\* The run instructions end to end: data_prep.py, mode1_train.py, then the
\* service, which answers one request.
InitPrep ==
  /\ InitService
  /\ disk = EmptyDisk
  /\ quota = 1

NextPrep == DataPrep \/ ModelTrain \/ Startup \/ Request

SpecPrep == InitPrep /\ [][NextPrep]_vars

\* ================================================================ claims
Served == last.status # "none"

Ok == last.status = "200"

PositionIn(seq, x) == CHOOSE k \in DOMAIN seq : seq[k] = x

\* the score model.predict gave product pid in the last request
RawScore(pid) == last.predictions[PositionIn(product_map, pid)]

\* 0.5 * score + 0.3 * (margin - 0.1) / (0.4 - 0.1) - 0.2 * penalty, with the
\* penalty 1 exactly below a stock of 50, in units of 1/30000
ClaimedBusinessScore(score, margin, stock) ==
  150 * score + 300 * (margin - 10) - (IF stock < 50 THEN 6000 ELSE 0)

BusinessScoreOf(pid) ==
  ClaimedBusinessScore(RawScore(pid), product_catalog[pid].ProfitMargin,
                       product_catalog[pid].CurrentStock)

\* the end-to-end scenario: scores [0.9, 0.8, 0.7], margins [0.1, 0.4, 0.25],
\* stocks [10, 200, 60]
ScenarioInputs ==
  /\ product_map = <<1, 2, 3>>
  /\ product_catalog = << [ProfitMargin |-> 10, CurrentStock |-> 10],
                          [ProfitMargin |-> 40, CurrentStock |-> 200],
                          [ProfitMargin |-> 25, CurrentStock |-> 60] >>
  /\ last.predictions = <<90, 80, 70>>

\* C1: a request for a retailer of retailer_map returns exactly
\* min(FINAL_LIST_SIZE, TOP_K_CANDIDATES, catalog size) results whose final
\* ranks are 1, 2, ..., N in order.
C1_ExactCountDenseRanks ==
  (Served /\ last.retailer_id \in retailer_map) =>
    /\ Len(last.response_list) =
         Min(FINAL_LIST_SIZE, Min(TOP_K_CANDIDATES, Len(product_map)))
    /\ \A i \in DOMAIN last.response_list : last.response_list[i].final_rank = i

C3_UnknownRetailerNotFound ==
  Served =>
    /\ last.retailer_id \notin retailer_map =>
         /\ last.status = "404"
         /\ last.scorer_calls = 0
         /\ last.predictions = <<>>
         /\ last.candidate_pids = <<>>
         /\ last.final_scores = <<>>
         /\ last.response_list = <<>>
    /\ last.status = "404" => last.retailer_id \notin retailer_map

C3_Witness ==
  /\ last.status = "404"
  /\ last.retailer_id = NumRetailers + 1
  /\ retailer_map = RetailerIds

\* C4: a request ends with the full ranked list or with one error and no
\* list; a request that succeeds has found every shortlisted product in the
\* catalog and has re-ranked every one of them.
C4_NoPartialResults ==
  Served =>
    /\ last.status \in {"200", "404", "500"}
    /\ last.status # "200" =>
         last.response_list = <<>> /\ last.final_scores = <<>>
    /\ Ok =>
         /\ \A i \in Range(TopIndices(last.predictions)) :
              /\ product_map[i] \in DOMAIN product_catalog
              /\ \E k \in DOMAIN last.final_scores :
                   last.final_scores[k].pid = product_map[i]
         /\ Len(last.final_scores) = Len(last.candidate_pids)
         /\ Len(last.response_list)
              = Min(FINAL_LIST_SIZE, Len(last.candidate_pids))

C4_Witness ==
  /\ last.status = "500"
  /\ last.retailer_id \in DOMAIN retailer_profiles
  /\ \E pid \in Range(product_map) : pid \notin DOMAIN product_catalog

C6_TopKSelection ==
  Ok =>
    LET c == last.candidate_pids
    IN  /\ Len(c) = Min(TOP_K_CANDIDATES, Len(product_map))
        /\ \A i, j \in DOMAIN c : i < j =>
             c[i] # c[j] /\ RawScore(c[i]) >= RawScore(c[j])
        /\ Range(c) \subseteq Range(product_map)
        /\ \A p \in Range(product_map) \ Range(c) :
             \A q \in Range(c) : RawScore(p) <= RawScore(q)
        /\ TOP_K_CANDIDATES >= Len(product_map) => Range(c) = Range(product_map)

C6_Witness ==
  /\ Ok
  /\ Len(product_map) > TOP_K_CANDIDATES
  /\ \E p \in Range(product_map) \ Range(last.candidate_pids) :
       /\ RawScore(p) = RawScore(last.candidate_pids[Len(last.candidate_pids)])
       /\ RawScore(p) < RawScore(last.candidate_pids[1])

\* the first and the last request of a run had the same retailer id and got
\* the same scores from the model
SameInputs ==
  /\ first.status = "200"
  /\ last.status = "200"
  /\ first.retailer_id = last.retailer_id
  /\ first.predictions = last.predictions

LoadComplete ==
  /\ disk.files = FileNames
  /\ model = TRUE
  /\ retailer_map = disk.retailer_map
  /\ product_map = disk.product_map
  /\ product_vectors_data = disk.product_vectors
  /\ product_catalog = disk.product_catalog
  /\ retailer_profiles = disk.retailer_profiles

\* C8: a request is served only after the startup load of the model and of
\* every artifact has completed, and a service whose load failed serves none.
C8_NoServiceBeforeLoad ==
  /\ (svc = "ready" \/ Served) => LoadComplete
  /\ svc = "failed" => (disk.files # FileNames /\ served = 0 /\ ~Served)
  /\ svc = "down" => (served = 0 /\ ~Served)

C8_Witness ==
  /\ svc = "failed"
  /\ model = TRUE
  /\ "retailer_profiles.csv" \notin disk.files
  /\ product_catalog = <<>>

\* C9: two shortlisted candidates with the same business score keep, in the
\* re-ranked list and in the result, the order candidate selection gave them.
C9_StableRerank ==
  Ok =>
    /\ \A i, j \in DOMAIN last.final_scores :
         (i < j /\ last.final_scores[i].final_score = last.final_scores[j].final_score)
           => PositionIn(last.candidate_pids, last.final_scores[i].pid)
                < PositionIn(last.candidate_pids, last.final_scores[j].pid)
    /\ \A i, j \in DOMAIN last.response_list :
         (i < j /\ BusinessScoreOf(last.response_list[i].product_id)
                     = BusinessScoreOf(last.response_list[j].product_id))
           => PositionIn(last.candidate_pids, last.response_list[i].product_id)
                < PositionIn(last.candidate_pids, last.response_list[j].product_id)

C9_Witness ==
  /\ Ok
  /\ \E i, j \in DOMAIN last.final_scores :
       /\ i < j
       /\ last.final_scores[i].final_score = last.final_scores[j].final_score
       /\ last.final_scores[i].score = last.final_scores[j].score
       /\ product_catalog[last.final_scores[i].pid]
            # product_catalog[last.final_scores[j].pid]

\* C10: every retailer id of retailer_map has a profile in retailer_profiles,
\* for every artifact set data_prep.py writes, so no request that passes the
\* existence check fails at the profile lookup.
C10_ProfileForEveryKnownRetailer ==
  svc = "ready" => retailer_map = DOMAIN retailer_profiles

====
